---- MODULE Spec2Model ----
(***************************************************************************)
(* Model of the imaging pipeline of ArtPop: src/artpop/image/imager.py     *)
(* (Imager, IdealImager, ArtImager) and the helpers of src/artpop/util.py  *)
(* that it uses.                                                           *)
(*                                                                         *)
(* Numbers.  Photometric scalars are products and powers of ten, so they   *)
(* are kept as logarithms: an integer L stands for the positive real       *)
(* 10^(L/1000) ("millidex").  Magnitudes are kept in hundredths of a       *)
(* magnitude, so that 10^(0.4*mag) has the logarithm 4*mag.  Multiplying   *)
(* is adding, dividing is subtracting, and both are exact.  Pixel values   *)
(* are sums, so they are kept as integers; Lin turns a logarithm into the  *)
(* integer it stands for.                                                  *)
(***************************************************************************)
EXTENDS Integers, Sequences, FiniteSets, TLC

VARIABLES imagers, gens, source, env, last, hist

vars == <<imagers, gens, source, env, last, hist>>

(***************************************************************************)
(* Python values                                                           *)
(***************************************************************************)
\* None is the empty tuple, any other optional value x is <<x>>.
None == <<>>
Some(x) == <<x>>
IsNone(o) == Len(o) = 0
Get(o) == o[1]

\* A float, and a dict stored where a float is expected.
Num(v) == [t |-> "num", v |-> v]
DictVal == [t |-> "dict", v |-> 0]

\* A value with a unit tag; "none" is a bare number.
Q(v, unit) == [v |-> v, unit |-> unit]

\* The result of a call that may raise.
Ok(v) == [ok |-> TRUE, v |-> v]
Raise == [ok |-> FALSE, v |-> 0]

Max(a, b) == IF a >= b THEN a ELSE b
Min(a, b) == IF a <= b THEN a ELSE b

(***************************************************************************)
(* Physical constants and units, in millidex                               *)
(***************************************************************************)
\* AB zero point, in hundredths of a magnitude (48.6).
mAB_0 == 4860
\* log10 of the Planck constant in erg s (6.626e-27).
LogH == -26179
\* log10(pi) and log10(2), for area = pi * (diameter/2)^2.
LogPi == 497
Log2 == 301
\* log10 of cm^2 per m^2.
LogCm2PerM2 == 4000
\* log10 of angstrom per nanometre, of seconds per kilosecond.
LogAAPerNm == 1000
LogSPerKs == 3000

\* log10 of the factor that brings a length unit to angstrom.
LenUnitLog(unit) == IF unit = "nm" THEN LogAAPerNm ELSE 0
\* log10 of the factor that brings a time unit to seconds.
TimeUnitLog(unit) == IF unit = "ks" THEN LogSPerKs ELSE 0

\* 10^(0.4*m) for m in hundredths of a magnitude.
Dex(m) == 4 * m

RECURSIVE Pow10(_)
Pow10(k) == IF k <= 0 THEN 1 ELSE 10 * Pow10(k - 1)

\* The integer a logarithm stands for; the inputs of the pipeline are chosen
\* so that counts are whole powers of ten (LinExact), anything finer is below
\* the resolution of the pixel values.
LinExact(L) == L >= 0 /\ L % 1000 = 0
Lin(L) == IF L < 0 THEN 0 ELSE Pow10(L \div 1000)

(***************************************************************************)
(* util.py                                                                 *)
(***************************************************************************)
\* check_units: a Quantity is kept, a bare number gets the default unit.
check_units(value, default_unit) ==
    IF value.unit # "none" THEN value ELSE Q(value.v, default_unit)

\* Quantity.to('s').value; a bare number has no such method.
ToSeconds(q) ==
    IF q.unit = "none" THEN Raise ELSE Ok(q.v + TimeUnitLog(q.unit))

\* check_odd as it would be if only the first element were looked at.
check_odd_first(val) == val[1] % 2 # 0

\* check_odd (lines 92-101) of an array: no element is even.  TRUE when the
\* check passes, FALSE when it raises.
check_odd(val) == \A k \in DOMAIN val : val[k] % 2 # 0

\* ndarray.astype(int) of a number given in halves: the fraction is dropped,
\* towards zero.
AsInt(h) == IF h >= 0 THEN h \div 2 ELSE 0 - ((0 - h) \div 2)

\* check_xy_dim (lines 122-127).  xy_dim is [scalar, v]: a number <<n>> or a
\* pair <<n1, n2>>, each given in halves.
check_xy_dim(xy_dim, force_odd) ==
    LET pair == IF xy_dim.scalar THEN <<xy_dim.v[1], xy_dim.v[1]>> ELSE xy_dim.v
        ints == [k \in DOMAIN pair |-> AsInt(pair[k])]
    IN  IF force_odd /\ ~check_odd(ints) THEN Raise ELSE Ok(ints)

\* embed_slices (lines 153-168): the slices lo:hi of the image and of the
\* model along both axes.
embed_slices(center, model_shape, image_shape) ==
    IF ~check_odd(model_shape) THEN Raise
    ELSE LET imin0 == [k \in 1 .. 2 |-> center[k] - model_shape[k] \div 2]
             imax0 == [k \in 1 .. 2 |-> center[k] + model_shape[k] \div 2]
             amin == [k \in 1 .. 2 |-> IF imin0[k] < 0 THEN 0 - imin0[k] ELSE 0]
             amax == [k \in 1 .. 2 |->
                        IF imax0[k] <= image_shape[k] - 1 THEN model_shape[k]
                        ELSE model_shape[k] - (imax0[k] - image_shape[k] + 1)]
             imin == [k \in 1 .. 2 |-> Max(imin0[k], 0)]
             imax == [k \in 1 .. 2 |-> Min(imax0[k], image_shape[k] - 1) + 1]
         IN  Ok([img_slice |-> [k \in 1 .. 2 |-> <<imin[k], imax[k]>>],
                 mod_slice |-> [k \in 1 .. 2 |-> <<amin[k], amax[k]>>]])

(***************************************************************************)
(* Filter registry (artpop.filters, speclite)                              *)
(***************************************************************************)
RegistryBands == {"g", "r"}
RomanBands == {"F062"}
CallerBands == {"F", "G"}
Bands == RegistryBands \cup RomanBands \cup CallerBands

\* get_filter_names(phot_system): the names of one system, of all systems for
\* None; an unknown system fails.
get_filter_names(phot_system, e) ==
    IF IsNone(phot_system) THEN Ok(RegistryBands \cup (IF e.roman_known THEN RomanBands ELSE {}))
    ELSE IF Get(phot_system) = "LSST" THEN Ok(RegistryBands)
    ELSE IF Get(phot_system) = "Roman" /\ e.roman_known THEN Ok(RomanBands)
    ELSE Raise

\* get_filter_properties(): width and effective wavelength, bare floats in
\* angstrom.
get_filter_properties(filt) ==
    [dlam |-> Q(3000, "none"), lam_eff |-> Q(IF filt = "g" THEN 4000 ELSE 5000, "none")]

\* The speclite curves of the Roman filters, as angstrom quantities.
speclite_properties(filt) ==
    [dlam |-> Q(3000, "AA"), lam_eff |-> Q(4000, "AA")]

(***************************************************************************)
(* ArtImager.__init__                                                      *)
(***************************************************************************)
NoImager == [built |-> FALSE]

\* The dict with the keys ks and the value v everywhere.
ConstDict(ks, v) == [k \in ks |-> v]

\* Lines 358-364: the efficiency table.
InitEfficiency(a, e) ==
    IF a.efficiency.t = "float"
    THEN LET names == get_filter_names(a.phot_system, e)
         IN  IF names.ok THEN Ok(ConstDict(names.v, Num(a.efficiency.v))) ELSE Raise
    ELSE IF a.efficiency.t = "dict" THEN Ok(a.efficiency.d)
    ELSE Raise

\* Lines 443-447 as they would be if a filter without an entry were skipped
\* instead of failing with a KeyError.
UnitsCheckedSkipping(filters, dlam, lam_eff) ==
    Ok([dlam |-> [f \in DOMAIN dlam |->
                    IF f \in filters THEN check_units(dlam[f], "AA") ELSE dlam[f]],
        lam_eff |-> [f \in DOMAIN lam_eff |->
                    IF f \in filters THEN check_units(lam_eff[f], "AA") ELSE lam_eff[f]]])

\* Lines 443-447: check_units over dlam and lam_eff of every filter.
UnitsChecked(filters, dlam, lam_eff) ==
    IF \A f \in filters : f \in DOMAIN dlam /\ f \in DOMAIN lam_eff
    THEN Ok([dlam |-> [f \in DOMAIN dlam |->
                         IF f \in filters THEN check_units(dlam[f], "AA") ELSE dlam[f]],
             lam_eff |-> [f \in DOMAIN lam_eff |->
                         IF f \in filters THEN check_units(lam_eff[f], "AA") ELSE lam_eff[f]]])
    ELSE Raise

\* Lines 376-447: the calibration branch, given the efficiency table eff.
\* Returns the fields filters, dlam, lam_eff, zpt_inst, efficiency.
InitCalibration(a, eff, e) ==
    IF ~IsNone(a.phot_system) /\ Get(a.phot_system) # "Roman"
    THEN LET names == get_filter_names(a.phot_system, e)
         IN  IF ~names.ok THEN Raise
             ELSE LET u == UnitsChecked(names.v,
                               [f \in names.v |-> get_filter_properties(f).dlam],
                               [f \in names.v |-> get_filter_properties(f).lam_eff])
                  IN  Ok([filters |-> names.v, dlam |-> Some(u.v.dlam),
                          lam_eff |-> Some(u.v.lam_eff), zpt_inst |-> None,
                          efficiency |-> eff])
    ELSE IF ~IsNone(a.phot_system)
    THEN \* 'Roman': line 422 stores the efficiency dict itself under every filter
         LET u == UnitsChecked(RomanBands,
                       [f \in RomanBands |-> speclite_properties(f).dlam],
                       [f \in RomanBands |-> speclite_properties(f).lam_eff])
         IN  Ok([filters |-> RomanBands, dlam |-> Some(u.v.dlam),
                 lam_eff |-> Some(u.v.lam_eff), zpt_inst |-> None,
                 efficiency |-> [f \in DOMAIN eff \cup RomanBands |->
                                   IF f \in RomanBands THEN DictVal ELSE eff[f]]])
    ELSE IF ~IsNone(a.zpt_inst)
    THEN Ok([filters |-> DOMAIN Get(a.zpt_inst), dlam |-> None, lam_eff |-> None,
             zpt_inst |-> a.zpt_inst, efficiency |-> eff])
    ELSE IF ~IsNone(a.dlam)
    THEN IF IsNone(a.lam_eff) THEN Raise
         ELSE LET u == UnitsChecked(DOMAIN Get(a.dlam), Get(a.dlam), Get(a.lam_eff))
              IN  IF ~u.ok THEN Raise
                  ELSE Ok([filters |-> DOMAIN Get(a.dlam), dlam |-> Some(u.v.dlam),
                           lam_eff |-> Some(u.v.lam_eff), zpt_inst |-> None,
                           efficiency |-> eff])
    ELSE IF ~IsNone(a.filter_system)
    THEN \* line 437 assigns into self.dlam, which is None here
         Raise
    ELSE Raise

\* check_random_state as it would be if an integer seed were ignored and the
\* generator of numpy.random returned for it.
check_random_state_unseeded(rs, own) ==
    IF rs.t = "none" \/ rs.t = "int" THEN Ok("global")
    ELSE IF rs.t = "gen" THEN Ok(rs.g)
    ELSE Raise

\* check_random_state: the generator an imager gets for random_state rs; own
\* is the fresh RandomState made for an integer seed.
check_random_state(rs, own) ==
    IF rs.t = "none" THEN Ok("global")
    ELSE IF rs.t = "int" THEN Ok(own)
    ELSE IF rs.t = "gen" THEN Ok(rs.g)
    ELSE Raise

\* ArtImager.__init__ as a whole: the imager built from the arguments a, or
\* Raise.
ArtImagerInit(a, own, e) ==
    LET eff == InitEfficiency(a, e)
        rng == check_random_state(a.random_state, own)
    IN  IF ~eff.ok \/ ~rng.ok THEN Raise
        ELSE LET c == InitCalibration(a, eff.v, e)
             IN  IF ~c.ok THEN Raise
                 ELSE Ok([built |-> TRUE,
                          args |-> a,
                          efficiency |-> c.v.efficiency,
                          transparency |-> a.transparency,
                          read_noise |-> a.read_noise,
                          gain |-> IF IsNone(a.gain) THEN 0 ELSE Get(a.gain),
                          diameter |-> check_units(a.diameter, "m"),
                          rng |-> rng.v,
                          dlam |-> c.v.dlam,
                          lam_eff |-> c.v.lam_eff,
                          filters |-> c.v.filters,
                          zpt_inst |-> c.v.zpt_inst])

(***************************************************************************)
(* Photometric conversion (ArtImager.area, mag_to_counts,                  *)
(* sb_to_counts_per_pixel, calibration)                                    *)
(***************************************************************************)
\* fnu_from_AB_mag: 10^((mag + mAB_0)/(-2.5)).
fnu_from_AB_mag(mag) == 0 - Dex(mag + mAB_0)

\* area.to('cm2'): pi * (diameter/2)^2 with the diameter in metres.
AreaCm2(im) == LogPi + 2 * (im.diameter.v - Log2) + LogCm2PerM2

\* The true ratio dlam / lam_eff, as decompose() gives it.
TrueRatio(dlam, lam_eff) ==
    (dlam.v + LenUnitLog(dlam.unit)) - (lam_eff.v + LenUnitLog(lam_eff.unit))

\* (dlam / lam_eff).value: the ratio of the two numbers, whatever their units.
ValueRatio(dlam, lam_eff) == dlam.v - lam_eff.v

\* self.efficiency[bandpass] * self.transparency: a KeyError for a band the
\* table lacks, a TypeError for a dict in the table.
EffTransp(im, bandpass) ==
    IF bandpass \notin DOMAIN im.efficiency THEN Raise
    ELSE IF im.efficiency[bandpass].t # "num" THEN Raise
    ELSE Ok(im.efficiency[bandpass].v + im.transparency)

\* mag_to_counts for one magnitude (lines 487-503).
mag_to_counts(im, mag, bandpass, exptime) ==
    LET t == ToSeconds(check_units(exptime, "s"))
    IN  IF IsNone(im.zpt_inst)
        THEN IF bandpass \notin DOMAIN Get(im.dlam) \/ bandpass \notin DOMAIN Get(im.lam_eff)
             THEN Raise
             ELSE LET photon_flux == TrueRatio(Get(im.dlam)[bandpass], Get(im.lam_eff)[bandpass])
                                     + fnu_from_AB_mag(mag) - LogH
                      counts == photon_flux + AreaCm2(im) + t.v
                      et == EffTransp(im, bandpass)
                  IN  IF ~et.ok THEN Raise ELSE Ok(counts + et.v - im.gain)
        ELSE IF bandpass \notin DOMAIN Get(im.zpt_inst) THEN Raise
             ELSE Ok(Dex(Get(im.zpt_inst)[bandpass] - mag) + t.v)

\* sb_to_counts_per_pixel (lines 528-548); pixel_scale is a quantity in
\* arcsec per pixel.
sb_to_counts_per_pixel(im, sb, bandpass, exptime, pixel_scale) ==
    LET t == ToSeconds(check_units(exptime, "s"))
    IN  IF IsNone(im.zpt_inst)
        THEN IF bandpass \notin DOMAIN Get(im.dlam) \/ bandpass \notin DOMAIN Get(im.lam_eff)
             THEN Raise
             ELSE IF pixel_scale.unit = "none" THEN Raise
             ELSE LET flux == fnu_from_AB_mag(sb) + 2 * pixel_scale.v
                              + TrueRatio(Get(im.dlam)[bandpass], Get(im.lam_eff)[bandpass])
                              - LogH
                      counts_per_pixel == flux + t.v + AreaCm2(im)
                      et == EffTransp(im, bandpass)
                  IN  IF ~et.ok THEN Raise ELSE Ok(counts_per_pixel + et.v - im.gain)
        ELSE IF bandpass \notin DOMAIN Get(im.zpt_inst) THEN Raise
             ELSE Ok(Dex(Get(im.zpt_inst)[bandpass] - sb) + t.v)

\* calibration (lines 571-582): exptime is used as given, without check_units.
calibration(im, bandpass, exptime, zpt) ==
    LET t == ToSeconds(exptime)
    IN  IF IsNone(im.zpt_inst)
        THEN IF bandpass \notin DOMAIN Get(im.dlam) \/ bandpass \notin DOMAIN Get(im.lam_eff)
             THEN Raise
             ELSE LET lam_factor == ValueRatio(Get(im.dlam)[bandpass], Get(im.lam_eff)[bandpass])
                                    - LogH
                      et == EffTransp(im, bandpass)
                  IN  IF ~t.ok \/ ~et.ok THEN Raise
                      ELSE Ok(Dex(zpt) + Dex(mAB_0) - lam_factor - t.v - AreaCm2(im)
                              - et.v + im.gain)
        ELSE IF bandpass \notin DOMAIN Get(im.zpt_inst) \/ ~t.ok THEN Raise
             ELSE Ok(Dex(zpt - Get(im.zpt_inst)[bandpass]) - t.v)

(***************************************************************************)
(* Arrays: a 2-D array has nr rows, nc columns and a value at every        *)
(* <<row, column>>, both counted from 0.                                   *)
(***************************************************************************)
Idx(nr, nc) == (0 .. nr - 1) \X (0 .. nc - 1)
Arr(nr, nc, f(_)) == [nr |-> nr, nc |-> nc, v |-> [p \in Idx(nr, nc) |-> f(p)]]
Shape(a) == <<a.nr, a.nc>>
Zeros(nr, nc) == [nr |-> nr, nc |-> nc, v |-> [p \in Idx(nr, nc) |-> 0]]

RECURSIVE SumOver(_, _)
\* The sum of f over the finite set S.
SumOver(S, f) ==
    IF S = {} THEN 0
    ELSE LET x == CHOOSE y \in S : TRUE IN f[x] + SumOver(S \ {x}, f)

\* a + b elementwise, arrays of one shape.
AddArr(a, b) == [a EXCEPT !.v = [p \in DOMAIN a.v |-> a.v[p] + b.v[p]]]

\* numpy broadcasting of b to the shape of a in a += b: every axis of b has the
\* length of a's axis or the length 1.
Broadcastable(a, b) ==
    /\ (b.nr = a.nr \/ b.nr = 1)
    /\ (b.nc = a.nc \/ b.nc = 1)
    /\ b.nr > 0 /\ b.nc > 0

AddInPlace(a, b) ==
    [a EXCEPT !.v = [p \in DOMAIN a.v |->
        a.v[p] + b.v[<<IF b.nr = 1 THEN 0 ELSE p[1], IF b.nc = 1 THEN 0 ELSE p[2]>>]]]

\* A Python slice lo:hi of an axis of length n: the first index and the length.
SliceStart(lo, n) == IF lo < 0 THEN Max(n + lo, 0) ELSE Min(lo, n)
SliceLen(lo, hi, n) == Max(SliceStart(hi, n) - SliceStart(lo, n), 0)

\* temp[r0:r0+h, c0:c0+w]
Cut(temp, r0, h, c0, w) ==
    LET rs == SliceStart(r0, temp.nr)
        cs == SliceStart(c0, temp.nc)
        nr == SliceLen(r0, r0 + h, temp.nr)
        nc == SliceLen(c0, c0 + w, temp.nc)
    IN  [nr |-> nr, nc |-> nc,
         v |-> [p \in Idx(nr, nc) |-> temp.v[<<rs + p[1], cs + p[2]>>]]]

(***************************************************************************)
(* Imager: checks, rasterizer, seeing                                      *)
(***************************************************************************)
\* _check_source: Source is among the classes of the object.
_check_source(src) == src.cls = "Source"

\* _check_bandpass as it would be if the membership test were left out.
_check_bandpass_skipped(im, bandpass) == TRUE

\* _check_bandpass: the bandpass is in self.filters.
_check_bandpass(im, bandpass) == bandpass \in im.filters

\* fast_histogram's bin of a coordinate h, given in half pixels, on an axis of
\* n bins over the range [0, n-1]: the range is half-open, the bin is
\* floor(x * n / (n-1)).
InHistRange(h, n) == 0 <= h /\ h < 2 * (n - 1)
HistBin(h, n) == (h * n) \div (2 * (n - 1))

\* The indices of the points a mask selects (all of them for None).
Selected(x, mask) ==
    IF IsNone(mask) THEN DOMAIN x ELSE {i \in DOMAIN x : Get(mask)[i]}

\* inject_stars (lines 165-174): histogram2d(...).T, so that the image has
\* xy_dim[1] rows (y) and xy_dim[0] columns (x).  histogram2d refuses a range
\* whose upper end is not above its lower end.
inject_stars(x, y, signal, xy_dim, mask) ==
    IF xy_dim[1] - 1 <= 0 \/ xy_dim[2] - 1 <= 0 THEN Raise
    ELSE LET sel == Selected(x, mask)
             hit(p) == {i \in sel : /\ InHistRange(x[i], xy_dim[1])
                                    /\ InHistRange(y[i], xy_dim[2])
                                    /\ HistBin(x[i], xy_dim[1]) = p[2]
                                    /\ HistBin(y[i], xy_dim[2]) = p[1]}
         IN  Ok([nr |-> xy_dim[2], nc |-> xy_dim[1],
                 v |-> [p \in Idx(xy_dim[2], xy_dim[1]) |-> SumOver(hit(p), signal)]])

\* A kernel is None or a row of weights at the column offsets -1, 0, 1.
KernelSum(k) == k[-1] + k[0] + k[1]

\* apply_seeing (lines 202-206): convolve_fft with the kernel normalised to
\* sum 1 and the periodic boundary; the image itself for psf None.
apply_seeing(image, psf) ==
    IF IsNone(psf) THEN Ok(image)
    ELSE LET k == Get(psf)
         IN  IF KernelSum(k) = 0 THEN Raise
             ELSE Ok([image EXCEPT !.v = [p \in DOMAIN image.v |->
                        (  k[-1] * image.v[<<p[1], (p[2] + 1) % image.nc>>]
                         + k[0] * image.v[p]
                         + k[1] * image.v[<<p[1], (p[2] - 1) % image.nc>>])
                        \div KernelSum(k)]])

(***************************************************************************)
(* numpy.random.RandomState: a generator is a state; every drawn number     *)
(* advances it, and the number is a function of the state it was drawn at. *)
(***************************************************************************)
\* The generator steps through its states by a fixed stride; n numbers drawn
\* from state s leave it at RngIter(s, n).
RngStep(s) == (s + 7) % 16
RngIter(s, n) == (s + 7 * n) % 16
\* RandomState(seed)
SeedState(seed) == (5 * seed + 1) % 16

\* A standard deviate drawn at state s, and a Poisson number of mean lam.
Deviate(s) == (s % 3) - 1
Poisson(lam, s) == IF lam = 0 THEN 0 ELSE Max(0, lam + Deviate(s))

\* The state at which pixel p of an array with nc columns is drawn, the
\* generator being at s when the call starts.
PixelState(s, p, nc) == RngIter(s, p[1] * nc + p[2] + 1)

RECURSIVE ISqrtFrom(_, _)
ISqrtFrom(n, k) == IF (k + 1) * (k + 1) > n THEN k ELSE ISqrtFrom(n, k + 1)
\* The whole part of sqrt(n).
ISqrt(n) == ISqrtFrom(n, 0)

(***************************************************************************)
(* Source (artpop.source): the object the caller hands to observe          *)
(***************************************************************************)
\* source.mag_to_image_amplitude(mag, zpt): the surface brightness at the
\* effective radius and the amplitude of the profile at zero point zpt.
mag_to_image_amplitude(src, mag, zpt) ==
    [mu_e |-> mag + src.mu_off,
     amp_image |-> Dex(zpt - (mag + src.mu_off)) + 2 * src.pixel_scale.v]

\* The profile of the smooth model over the grid, with amplitude 1: centred on
\* the grid of the source.
Profile(src, p) ==
    LET dr == p[1] - (src.xy_dim[2] \div 2)
        dc == p[2] - (src.xy_dim[1] \div 2)
        d == (IF dr < 0 THEN 0 - dr ELSE dr) + (IF dc < 0 THEN 0 - dc ELSE dc)
    IN  IF d = 0 THEN 2 ELSE IF d = 1 THEN 1 ELSE 0

\* The profile added as it would be if it were evaluated with the amplitude
\* the smooth model already carries, before the new one is set.
AddSmoothStale(image, src, amp) ==
    [image EXCEPT !.v = [p \in DOMAIN image.v |->
        image.v[p] + Lin(Get(src.amp)) * Profile(src, p)]]

\* image + source.smooth_model(xx, yy), the amplitude being amp.
AddSmooth(image, src, amp) ==
    [image EXCEPT !.v = [p \in DOMAIN image.v |-> image.v[p] + Lin(amp) * Profile(src, p)]]

\* The amplitude set on a copy of the smooth model, the source left alone.
SetAmplitudeOnCopy(src, amp) == src

\* setattr(source.smooth_model, name, amp)
SetAmplitude(src, amp) == [src EXCEPT !.amp = Some(amp)]

\* What a call did besides returning: raised, the observation obs, the state
\* gen the generator is left in, the source src as the call leaves it, and
\* whether a background file was read.
Outcome(raised, obs, gen, src, read) ==
    [raised |-> raised, obs |-> obs, gen |-> gen, src |-> src, read |-> read]
NoObs == [image |-> 0]

(***************************************************************************)
(* IdealImager                                                             *)
(***************************************************************************)
\* IdealImager.inject_smooth_model (lines 248-259): whether it raised, the
\* image, and the source as it leaves it.
IdealInjectSmooth(image, src, bandpass, zpt) ==
    IF src.smooth # "model" THEN [raised |-> FALSE, image |-> image, src |-> src]
    ELSE IF ~src.has_sp \/ bandpass \notin DOMAIN src.sp_mag
    THEN [raised |-> TRUE, image |-> image, src |-> src]
    ELSE LET a == mag_to_image_amplitude(src, src.sp_mag[bandpass], zpt).amp_image
         IN  [raised |-> FALSE, image |-> AddSmooth(image, src, a),
              src |-> SetAmplitude(src, a)]

\* IdealImager.observe (lines 285-292).
IdealObserve(src, a) ==
    IF ~_check_source(src) THEN Outcome(TRUE, NoObs, 0, src, FALSE)
    ELSE IF a.bandpass \notin DOMAIN src.mags THEN Outcome(TRUE, NoObs, 0, src, FALSE)
    ELSE LET flux == [i \in DOMAIN src.x |-> Lin(Dex(a.zpt - src.mags[a.bandpass][i]))]
             stars == inject_stars(src.x, src.y, flux, src.xy_dim, a.mask)
         IN  IF ~stars.ok THEN Outcome(TRUE, NoObs, 0, src, FALSE)
             ELSE LET sm == IdealInjectSmooth(stars.v, src, a.bandpass, a.zpt)
                      seen == apply_seeing(sm.image, a.psf)
                  IN  IF sm.raised \/ ~seen.ok THEN Outcome(TRUE, NoObs, 0, sm.src, FALSE)
                      ELSE Outcome(FALSE,
                                   [image |-> seen.v, zpt |-> a.zpt, bandpass |-> a.bandpass],
                                   0, sm.src, FALSE)

(***************************************************************************)
(* ArtImager: smooth model, background file, noise, observe                *)
(***************************************************************************)
\* ArtImager.inject_smooth_model (lines 608-624).
ArtInjectSmooth(im, image, src, bandpass, exptime, zpt) ==
    IF src.smooth # "model" THEN [raised |-> FALSE, image |-> image, src |-> src]
    ELSE LET mag == IF src.has_sp
                    THEN IF bandpass \in DOMAIN src.sp_mag
                         THEN Ok(src.sp_mag[bandpass]) ELSE Raise
                    ELSE \* float(source.mags[bandpass]) needs a single magnitude
                         IF Len(src.mags[bandpass]) = 1
                         THEN Ok(src.mags[bandpass][1]) ELSE Raise
         IN  IF ~mag.ok THEN [raised |-> TRUE, image |-> image, src |-> src]
             ELSE LET mu == mag_to_image_amplitude(src, mag.v, zpt).mu_e
                      amp_counts == sb_to_counts_per_pixel(im, mu, bandpass, exptime,
                                                           src.pixel_scale)
                  IN  IF ~amp_counts.ok
                      THEN [raised |-> TRUE, image |-> image, src |-> src]
                      ELSE [raised |-> FALSE,
                            image |-> AddSmooth(image, src, amp_counts.v),
                            src |-> SetAmplitude(src, amp_counts.v)]

\* import_bkg (lines 655-657): the data of the file times the exposure time;
\* a file that does not exist cannot be opened.
import_bkg(e, bkg_file, exptime) ==
    IF bkg_file \notin DOMAIN e.files THEN Raise
    ELSE LET temp == e.files[bkg_file]
         IN  Ok([temp EXCEPT !.v = [p \in DOMAIN temp.v |->
                                      temp.v[p] * Lin(ToSeconds(exptime).v)]])

\* Lines 699-708: the cutout of the background, added in place to src_counts.
AddBackground(src_counts, temp, xy_dim, bkg_ori) ==
    LET half_size == <<xy_dim[1] \div 2, xy_dim[2] \div 2>>
        ori == IF IsNone(bkg_ori)
               THEN <<temp.nr \div 2 - half_size[1], temp.nc \div 2 - half_size[2]>>
               ELSE Get(bkg_ori)
        cut == Cut(temp, ori[1], xy_dim[1], ori[2], xy_dim[2])
    IN  IF Broadcastable(src_counts, cut) THEN Ok(AddInPlace(src_counts, cut)) ELSE Raise

\* The clip as it would be if negative pixels were left as they are.
ClipNegativeSkipped(a) == a

\* src_counts[src_counts < 0] = 0
ClipNegative(a) == [a EXCEPT !.v = [p \in DOMAIN a.v |-> Max(a.v[p], 0)]]

\* nan, which np.sqrt gives for a negative number and arithmetic hands on: a
\* value below every pixel value.
NaN == 0 - Pow10(9)

\* Lines 726-730 and 774-778: the distribution raw_counts is drawn from in a
\* pixel of expected counts c (ADU), by the arguments the generator is
\* called with: rng.normal(loc=c, scale=sqrt(c)) on win32, else
\* rng.poisson(c * gain) / gain.  mean is in ADU, gvar is the variance in
\* ADU^2 times the gain G.
DrawnFrom(im, e, c) ==
    LET G == Lin(im.gain)
    IN  IF e.platform = "win32"
        THEN [dist |-> "normal", mean |-> c, gvar |-> c * G]
        ELSE [dist |-> "poisson", mean |-> (c * G) \div G, gvar |-> (c * G) \div G]

\* Lines 723-733 and 771-781: the noisy counts.  Values in ADU are kept as
\* whole multiples of 1/G^2 ADU, G the gain: the result is raw_counts * G^2.
\* rng.poisson refuses a negative mean; rng.normal with the scale nan
\* returns nan.  Returns <<raised, raw, gen>>.
NoisyCounts(im, e, src_counts, sky_counts, s) ==
    LET G == Lin(im.gain)
        n == src_counts.nr * src_counts.nc
        c(p) == src_counts.v[p] + sky_counts
        rn(p, s1) == IF im.read_noise > 0
                     THEN im.read_noise * G * Deviate(PixelState(s1, p, src_counts.nc))
                     ELSE 0
        s2 == IF im.read_noise > 0 THEN RngIter(s, 2 * n) ELSE RngIter(s, n)
    IN  IF e.platform = "win32"
        THEN [raised |-> FALSE, gen |-> s2,
              raw |-> [src_counts EXCEPT !.v = [p \in DOMAIN src_counts.v |->
                         IF c(p) < 0 THEN NaN
                         ELSE (c(p) + ISqrt(c(p)) * Deviate(PixelState(s, p, src_counts.nc)))
                                 * G * G
                              + rn(p, RngIter(s, n))]]]
        ELSE IF \E p \in DOMAIN src_counts.v : c(p) < 0
        THEN [raised |-> TRUE, raw |-> src_counts, gen |-> s]
        ELSE [raised |-> FALSE, gen |-> s2,
              raw |-> [src_counts EXCEPT !.v = [p \in DOMAIN src_counts.v |->
                         Poisson(c(p) * G, PixelState(s, p, src_counts.nc)) * G
                         + rn(p, RngIter(s, n))]]]

\* The magnitude error of one star with counts cnt (line 717-718), as the
\* term it is computed from.
MagError(im, sky_counts, cnt) ==
    [read_noise |-> im.read_noise, sky |-> sky_counts, gain |-> im.gain, counts |-> cnt]

\* MakeObservation as it would be if the variance were the expected counts
\* src_counts + sky_counts plus the read-noise term, not the drawn counts.
MakeObservationExpected(im, raw, src_counts, sky_counts, cali, a, exptime, mag_error) ==
    LET G == Lin(im.gain)
    IN  [raw_counts |-> raw,
         src_counts |-> src_counts,
         sky_counts |-> sky_counts,
         image |-> [raw EXCEPT !.v = [p \in DOMAIN raw.v |->
                        IF raw.v[p] = NaN THEN NaN ELSE raw.v[p] - sky_counts * G * G]],
         var_image |-> [raw EXCEPT !.v = [p \in DOMAIN raw.v |->
                        (src_counts.v[p] + sky_counts) * G * G
                        + im.read_noise * im.read_noise]],
         calibration |-> cali,
         zpt |-> a.zpt,
         bandpass |-> a.bandpass,
         exptime |-> exptime,
         mag_error |-> mag_error]

\* Lines 734-748: calibration, calibrated image, variance and the record.
\* raw is raw_counts * G^2, and so are image.v (before the factor cal) and
\* var_image.
MakeObservation(im, raw, src_counts, sky_counts, cali, a, exptime, mag_error) ==
    LET G == Lin(im.gain)
    IN  [raw_counts |-> raw,
         src_counts |-> src_counts,
         sky_counts |-> sky_counts,
         image |-> [raw EXCEPT !.v = [p \in DOMAIN raw.v |->
                        IF raw.v[p] = NaN THEN NaN ELSE raw.v[p] - sky_counts * G * G]],
         var_image |-> [raw EXCEPT !.v = [p \in DOMAIN raw.v |->
                        IF raw.v[p] = NaN THEN NaN
                        ELSE raw.v[p] + im.read_noise * im.read_noise]],
         calibration |-> cali,
         zpt |-> a.zpt,
         bandpass |-> a.bandpass,
         exptime |-> exptime,
         mag_error |-> mag_error]

\* Lines 711-749 and 759-797, the tail that observe and observe_background
\* share: seeing, sky, noise, calibration.  with_error is whether the
\* magnitude error is computed (observe) or not (observe_background); counts
\* are the counts of the stars, src and read what the call did before.
ObserveTail(im, e, s, src_counts0, a, exptime, pixel_scale, counts, with_error, src, read) ==
    LET seen == apply_seeing(src_counts0, a.psf)
        sky == IF IsNone(a.sky_sb) THEN Ok(0)
               ELSE sb_to_counts_per_pixel(im, Get(a.sky_sb), a.bandpass, exptime, pixel_scale)
    IN  IF ~seen.ok \/ ~sky.ok THEN Outcome(TRUE, NoObs, s, src, read)
        ELSE LET sky_counts == IF IsNone(a.sky_sb) THEN 0 ELSE Lin(sky.v)
                 src_counts == IF IsNone(a.sky_sb) THEN ClipNegative(seen.v) ELSE seen.v
                 mag_error == IF IsNone(a.sky_sb) \/ ~with_error THEN None
                              ELSE Some([i \in DOMAIN counts |->
                                           MagError(im, sky_counts, counts[i])])
                 noisy == NoisyCounts(im, e, src_counts, sky_counts, s)
                 cali == calibration(im, a.bandpass, exptime, a.zpt)
             IN  IF noisy.raised THEN Outcome(TRUE, NoObs, s, src, read)
                 ELSE IF ~cali.ok THEN Outcome(TRUE, NoObs, noisy.gen, src, read)
                 ELSE Outcome(FALSE,
                              MakeObservation(im, noisy.raw, src_counts, sky_counts,
                                              cali.v, a, exptime, mag_error),
                              noisy.gen, src, read)

\* ArtImager.observe (lines 691-749): the generator of the imager is at s.
ArtObserve(im, e, s, src, a) ==
    IF ~_check_bandpass(im, a.bandpass) THEN Outcome(TRUE, NoObs, s, src, FALSE)
    ELSE IF ~_check_source(src) THEN Outcome(TRUE, NoObs, s, src, FALSE)
    ELSE IF a.bandpass \notin DOMAIN src.mags THEN Outcome(TRUE, NoObs, s, src, FALSE)
    ELSE LET exptime == check_units(a.exptime, "s")
             logc == [i \in DOMAIN src.x |->
                        mag_to_counts(im, src.mags[a.bandpass][i], a.bandpass, exptime)]
             counts == [i \in DOMAIN src.x |-> Lin(logc[i].v)]
             stars == inject_stars(src.x, src.y, counts, src.xy_dim, a.mask)
         IN  IF (\E i \in DOMAIN logc : ~logc[i].ok) \/ ~stars.ok
             THEN Outcome(TRUE, NoObs, s, src, FALSE)
             ELSE LET sm == ArtInjectSmooth(im, stars.v, src, a.bandpass, exptime, a.zpt)
                      temp == IF IsNone(a.bkg_file) THEN Ok(sm.image)
                              ELSE import_bkg(e, Get(a.bkg_file), exptime)
                      read == ~IsNone(a.bkg_file) /\ temp.ok
                      withbkg == IF IsNone(a.bkg_file) \/ ~temp.ok THEN temp
                                 ELSE AddBackground(sm.image, temp.v, src.xy_dim, a.bkg_ori)
                  IN  IF sm.raised THEN Outcome(TRUE, NoObs, s, sm.src, FALSE)
                      ELSE IF ~withbkg.ok THEN Outcome(TRUE, NoObs, s, sm.src, read)
                      ELSE ObserveTail(im, e, s, withbkg.v, a, exptime, src.pixel_scale,
                                       counts, TRUE, sm.src, read)

\* ArtImager.observe_background (lines 756-797); a carries bkg_file, xy_dim
\* and pixel_scale besides the arguments of observe.  src is the caller's
\* source, which the call is not given.
ArtObserveBackground(im, e, s, src, a) ==
    IF ~_check_bandpass(im, a.bandpass) THEN Outcome(TRUE, NoObs, s, src, FALSE)
    ELSE LET exptime == check_units(a.exptime, "s")
             temp == IF IsNone(a.bkg_file) THEN Raise
                     ELSE import_bkg(e, Get(a.bkg_file), exptime)
         IN  IF ~temp.ok THEN Outcome(TRUE, NoObs, s, src, FALSE)
             ELSE ObserveTail(im, e, s, temp.v, a, exptime, a.pixel_scale,
                              <<>>, FALSE, src, TRUE)

(***************************************************************************)
(* Bounds and the inputs the calls are made with                           *)
(***************************************************************************)
\* Calls of observe and observe_background made on one imager.
MaxCalls == 2
\* The largest grid dimension the rasterizer is called with.
MaxDim == 5

ImagerIds == {1, 2}
GenIds == {"global", "own1", "own2", "ext"}
\* The RandomState made for an integer seed given to imager i.
OwnGen(i) == IF i = 1 THEN "own1" ELSE "own2"

\* Kernels: a delta and a sharpening kernel.
Delta == [o \in {-1, 0, 1} |-> IF o = 0 THEN 1 ELSE 0]
Sharp == [o \in {-1, 0, 1} |-> IF o = 0 THEN 3 ELSE -1]

\* The background file: 5 x 5, a bright centre, one negative pixel.
BkgData ==
    [nr |-> 5, nc |-> 5,
     v |-> [p \in Idx(5, 5) |-> IF p = <<2, 2>> THEN 3
                                ELSE IF p = <<1, 2>> THEN -1 ELSE 0]]

\* The sources: pixel coordinates are in half pixels, magnitudes in
\* hundredths.  "X" is a band of the source that no filter set knows.
SourceBands == {"g", "F", "F062", "X"}
OneStar ==
    [cls |-> "Source", x |-> <<2>>, y |-> <<2>>,
     mags |-> [b \in SourceBands |-> <<2000>>],
     xy_dim |-> <<3, 3>>, pixel_scale |-> Q(0, "arcsec/pix"),
     smooth |-> "none", amp |-> None, has_sp |-> TRUE,
     sp_mag |-> [b \in SourceBands |-> 1750], mu_off |-> 500]
TwoStars == [OneStar EXCEPT !.x = <<2, 0>>, !.y = <<2, 3>>,
                            !.mags = [b \in SourceBands |-> <<2000, 2250>>]]
WithModel == [OneStar EXCEPT !.smooth = "model", !.amp = Some(0)]
WithModelNoSp == [WithModel EXCEPT !.has_sp = FALSE]
NotASource == [WithModel EXCEPT !.cls = "Other"]
Sources == {OneStar, TwoStars, WithModel, WithModelNoSp, NotASource}

\* The efficiency argument: a float, a dict, or something else (an int).
FloatEff(v) == [t |-> "float", v |-> v, d |-> <<>>]
DictEff(d) == [t |-> "dict", v |-> 0, d |-> d]
OtherEff == [t |-> "int", v |-> 0, d |-> <<>>]

\* Constructor arguments.
EmpArgs ==
    [phot_system |-> None, diameter |-> Q(183, "none"), read_noise |-> 0,
     gain |-> None, efficiency |-> FloatEff(0), transparency |-> 0,
     dlam |-> None, lam_eff |-> None, filter_system |-> None,
     zpt_inst |-> Some([b \in {"F"} |-> 2500]),
     random_state |-> [t |-> "none", v |-> 0, g |-> "global"]]
RadArgs ==
    [EmpArgs EXCEPT !.zpt_inst = None,
                    !.efficiency = DictEff([b \in {"F"} |-> Num(0)]),
                    !.dlam = Some([b \in {"F"} |-> Q(3000, "none")]),
                    !.lam_eff = Some([b \in {"F"} |-> Q(4000, "none")])]

\* random_state: None, an integer seed, a RandomState of the caller.
NoSeed == [t |-> "none", v |-> 0, g |-> "global"]
Seed(n) == [t |-> "int", v |-> n, g |-> "global"]
Generator(g) == [t |-> "gen", v |-> 0, g |-> g]
RandomStates == {NoSeed, Seed(1), Seed(2), Generator("ext")}

\* Arguments of observe.
BaseObs ==
    [bandpass |-> "F", exptime |-> Q(1000, "none"), sky_sb |-> None, psf |-> None,
     zpt |-> 2750, mask |-> None, bkg_file |-> None, bkg_ori |-> None]
\* Arguments of observe_background: those of observe, the grid and the scale.
BaseBkg ==
    [bandpass |-> "F", exptime |-> Q(1000, "none"), sky_sb |-> None, psf |-> None,
     zpt |-> 2750, bkg_file |-> Some("bkg.fits"), xy_dim |-> <<3, 3>>,
     pixel_scale |-> Q(0, "arcsec/pix")]

(***************************************************************************)
(* Actions.  last is the call just made: its name op, the imager im it was *)
(* made on (0 for none), its arguments a and what came of it, out.         *)
(* hist[i] lists the observe and observe_background calls made on imager   *)
(* i, with their outcome when track is set.                                *)
(***************************************************************************)
Call(op, im, a, out) == [op |-> op, im |-> im, a |-> a, out |-> out]

\* ArtImager(**a) for imager i, a drawn from Cfgs.
Construct(i, Cfgs) ==
    /\ ~imagers[i].built
    /\ \E a \in Cfgs :
         LET r == ArtImagerInit(a, OwnGen(i), env)
         IN  /\ imagers' = IF r.ok THEN [imagers EXCEPT ![i] = r.v] ELSE imagers
             /\ gens' = IF r.ok /\ a.random_state.t = "int"
                        THEN [gens EXCEPT ![OwnGen(i)] = SeedState(a.random_state.v)]
                        ELSE gens
             /\ last' = Call("init", i, a, [raised |-> ~r.ok])
    /\ UNCHANGED <<source, env, hist>>

\* imager.mag_to_counts(mag, bandpass, exptime)
MagToCountsCall(i, Args) ==
    /\ imagers[i].built
    /\ \E a \in Args :
         last' = Call("mag_to_counts", i, a,
                      mag_to_counts(imagers[i], a.mag, a.bandpass, a.exptime))
    /\ UNCHANGED <<imagers, gens, source, env, hist>>

\* imager.sb_to_counts_per_pixel(sb, bandpass, exptime, pixel_scale)
SbToCountsCall(i, Args) ==
    /\ imagers[i].built
    /\ \E a \in Args :
         last' = Call("sb_to_counts_per_pixel", i, a,
                      sb_to_counts_per_pixel(imagers[i], a.mag, a.bandpass, a.exptime,
                                             a.pixel_scale))
    /\ UNCHANGED <<imagers, gens, source, env, hist>>

\* imager.calibration(bandpass, exptime, zpt)
CalibrationCall(i, Args) ==
    /\ imagers[i].built
    /\ \E a \in Args :
         last' = Call("calibration", i, a,
                      calibration(imagers[i], a.bandpass, a.exptime, a.zpt))
    /\ UNCHANGED <<imagers, gens, source, env, hist>>

\* What a call on imager i leaves behind: the generator, the source, the call
\* in last and in hist.
Effects(op, i, a, o, track) ==
    /\ gens' = [gens EXCEPT ![imagers[i].rng] = o.gen]
    /\ source' = o.src
    /\ last' = Call(op, i, a, o)
    /\ hist' = [hist EXCEPT ![i] = Append(@, IF track THEN [op |-> op, a |-> a, out |-> o]
                                              ELSE [op |-> op])]
    /\ UNCHANGED <<imagers, env>>

\* imager.observe(source, **a)
ObserveCall(i, Args, track) ==
    /\ imagers[i].built
    /\ Len(hist[i]) < MaxCalls
    /\ \E a \in Args :
         Effects("observe", i, a,
                 ArtObserve(imagers[i], env, gens[imagers[i].rng], source, a), track)

\* imager.observe_background(**a)
ObserveBackgroundCall(i, Args, track) ==
    /\ imagers[i].built
    /\ Len(hist[i]) < MaxCalls
    /\ \E a \in Args :
         Effects("observe_background", i, a,
                 ArtObserveBackground(imagers[i], env, gens[imagers[i].rng], source, a),
                 track)

\* IdealImager().observe(source, **a)
IdealObserveCall(Args) ==
    /\ \E a \in Args :
         LET o == IdealObserve(source, a)
         IN  /\ source' = o.src
             /\ last' = Call("ideal_observe", 0, a, o)
    /\ UNCHANGED <<imagers, gens, env, hist>>

\* imager.inject_stars(x, y, signal, xy_dim, mask)
InjectStarsCall(Args) ==
    /\ \E a \in Args :
         last' = Call("inject_stars", 0, a,
                      inject_stars(a.x, a.y, a.signal, a.xy_dim, a.mask))
    /\ UNCHANGED <<imagers, gens, source, env, hist>>

NoCall == Call("none", 0, [bandpass |-> "F"], [raised |-> FALSE])

Files == [f \in {"bkg.fits"} |-> BkgData]
Env(roman_known, platform) ==
    [roman_known |-> roman_known, platform |-> platform, files |-> Files]

\* The state before any imager is built: the generator of numpy.random and
\* the caller's own RandomState are somewhere in their sequences.
InitWith(Srcs, Envs) ==
    /\ imagers = [i \in ImagerIds |-> NoImager]
    /\ gens = [g \in GenIds |-> IF g = "ext" THEN 4 ELSE 0]
    /\ source \in Srcs
    /\ env \in Envs
    /\ last = NoCall
    /\ hist = [i \in ImagerIds |-> <<>>]

(***************************************************************************)
(* Spec: one imager, one source, the observing calls of both pipelines     *)
(***************************************************************************)
NoisyArgs == [RadArgs EXCEPT !.read_noise = 10, !.gain = Some(1000)]

OneCfgs == {EmpArgs, [RadArgs EXCEPT !.random_state = Seed(1)], NoisyArgs}

ObsArgs ==
    {BaseObs,
     [BaseObs EXCEPT !.sky_sb = Some(2250)],
     [BaseObs EXCEPT !.psf = Some(Sharp)],
     [BaseObs EXCEPT !.bkg_file = Some("bkg.fits")],
     [BaseObs EXCEPT !.bandpass = "g"],
     [BaseObs EXCEPT !.bandpass = "r"]}

BkgArgs ==
    {BaseBkg,
     [BaseBkg EXCEPT !.sky_sb = Some(2250)],
     [BaseBkg EXCEPT !.bandpass = "g"],
     [BaseBkg EXCEPT !.bandpass = "g", !.sky_sb = Some(2250)]}

IdealArgs ==
    {[bandpass |-> b, psf |-> k, zpt |-> 2750, mask |-> None] :
        b \in {"F", "X", "r"}, k \in {None, Some(Delta)}}

Init == InitWith(Sources, {Env(TRUE, "linux")})

Next ==
    \/ Construct(1, OneCfgs)
    \/ ObserveCall(1, ObsArgs, FALSE)
    \/ ObserveBackgroundCall(1, BkgArgs, FALSE)
    \/ IdealObserveCall(IdealArgs)

Spec == Init /\ [][Next]_vars

(***************************************************************************)
(* SpecTwo: two imagers built in every way a generator can be given        *)
(***************************************************************************)
TwoCfgs ==
    {EmpArgs,
     [EmpArgs EXCEPT !.random_state = Seed(1)],
     [EmpArgs EXCEPT !.random_state = Generator("ext")],
     [RadArgs EXCEPT !.random_state = Seed(2)]}

TwoObsArgs == {BaseObs, [BaseObs EXCEPT !.sky_sb = Some(2250)]}

InitTwo == InitWith({WithModel}, {Env(TRUE, "linux")})

NextTwo ==
    \/ \E i \in ImagerIds : Construct(i, TwoCfgs)
    \/ \E i \in ImagerIds : ObserveCall(i, TwoObsArgs, FALSE)
    \/ \E i \in ImagerIds : ObserveBackgroundCall(i, {BaseBkg}, FALSE)

SpecTwo == InitTwo /\ [][NextTwo]_vars

(***************************************************************************)
(* SpecDet: two imagers with integer seeds, their calls recorded           *)
(***************************************************************************)
DetCfgs == {[EmpArgs EXCEPT !.random_state = Seed(1)],
            [NoisyArgs EXCEPT !.random_state = Seed(1)]}

DetObsArgs ==
    {[BaseObs EXCEPT !.sky_sb = Some(2250)],
     [BaseObs EXCEPT !.bkg_file = Some("bkg.fits"), !.zpt = 2500]}

InitDet == InitWith({WithModel}, {Env(TRUE, "linux"), Env(TRUE, "win32")})

NextDet ==
    \/ \E i \in ImagerIds : Construct(i, DetCfgs)
    \/ \E i \in ImagerIds : ObserveCall(i, DetObsArgs, TRUE)
    \/ \E i \in ImagerIds : ObserveBackgroundCall(i, {BaseBkg}, TRUE)

SpecDet == InitDet /\ [][NextDet]_vars

(***************************************************************************)
(* SpecCtor: one imager built from every combination of the calibration    *)
(* arguments, then asked for its conversions                               *)
(***************************************************************************)
PhotSystems == {None, Some("LSST"), Some("Roman")}
Efficiencies == {FloatEff(-1000), DictEff([b \in {"F"} |-> Num(0)]), OtherEff}
Dlams == {None, Some([b \in {"F"} |-> Q(3000, "none")]),
          Some([b \in {"F"} |-> Q(2000, "nm")])}
LamEffs == {None, Some([b \in {"F"} |-> Q(4000, "none")]),
            Some([b \in {"G"} |-> Q(4000, "none")])}
FilterSystems == {None, Some({"F"})}
ZptInsts == {None, Some([b \in {"F"} |-> 2500])}

CtorCfgs ==
    {[EmpArgs EXCEPT !.phot_system = ps, !.efficiency = ef, !.dlam = dl,
                     !.lam_eff = le, !.filter_system = fs, !.zpt_inst = zi,
                     !.random_state = Seed(1)] :
        ps \in PhotSystems, ef \in Efficiencies, dl \in Dlams, le \in LamEffs,
        fs \in FilterSystems, zi \in ZptInsts}

\* Magnitudes, zero points and exposure times of the conversions.
Mags == {2000, 2250}
Zpts == {2750, 2500}
TimeQuantities == {Q(1000, "s"), Q(-2000, "ks")}

ScalarArgs ==
    {[mag |-> 2000, bandpass |-> b, exptime |-> t, zpt |-> 2750,
      pixel_scale |-> Q(0, "arcsec/pix")] :
        b \in {"F", "g"}, t \in {Q(1000, "none"), Q(-2000, "ks")}}

CtorObsArgs == {BaseObs, [BaseObs EXCEPT !.bandpass = "g"]}
CtorBkgArgs == {BaseBkg, [BaseBkg EXCEPT !.bandpass = "g"]}

InitCtor == InitWith({OneStar}, {Env(TRUE, "linux"), Env(FALSE, "linux")})

NextCtor ==
    \/ Construct(1, CtorCfgs)
    \/ MagToCountsCall(1, ScalarArgs)
    \/ SbToCountsCall(1, ScalarArgs)
    \/ CalibrationCall(1, ScalarArgs)
    \/ ObserveCall(1, CtorObsArgs, FALSE)
    \/ ObserveBackgroundCall(1, CtorBkgArgs, FALSE)

SpecCtor == InitCtor /\ [][NextCtor]_vars

(***************************************************************************)
(* Calibration modes                                                       *)
(***************************************************************************)
\* zpt_inst is set, dlam and lam_eff are not.
Empirical(im) == ~IsNone(im.zpt_inst) /\ IsNone(im.dlam) /\ IsNone(im.lam_eff)

\* dlam and lam_eff are set for every filter, zpt_inst is not.
Radiometric(im) ==
    /\ IsNone(im.zpt_inst) /\ ~IsNone(im.dlam) /\ ~IsNone(im.lam_eff)
    /\ \A f \in im.filters : f \in DOMAIN Get(im.dlam) /\ f \in DOMAIN Get(im.lam_eff)

Mode(im) ==
    IF Empirical(im) /\ ~Radiometric(im) THEN "empirical"
    ELSE IF Radiometric(im) /\ ~Empirical(im) THEN "radiometric"
    ELSE "none"

C1_ModeActive == \A i \in ImagerIds : imagers[i].built => Mode(imagers[i]) # "none"

C1_ModeKept ==
    \A i \in ImagerIds :
        imagers[i].built => imagers'[i].built /\ Mode(imagers'[i]) = Mode(imagers[i])

C9_ZptInstPrecedence ==
    \A i \in ImagerIds :
        imagers[i].built /\ ~IsNone(imagers[i].args.zpt_inst)
        => /\ Mode(imagers[i]) = "empirical"
           /\ imagers[i].filters = DOMAIN Get(imagers[i].args.zpt_inst)

\* C10: a radiometric imager built with a float efficiency e has
\* efficiency[b] = e for every filter b, and mag_to_counts and calibration
\* succeed for every filter.
C10_FloatEfficiency ==
    \A i \in ImagerIds :
        /\ imagers[i].built /\ imagers[i].args.efficiency.t = "float"
        /\ Mode(imagers[i]) = "radiometric"
        => \A b \in imagers[i].filters :
              /\ b \in DOMAIN imagers[i].efficiency
              /\ imagers[i].efficiency[b] = Num(imagers[i].args.efficiency.v)
              /\ \A t \in TimeQuantities :
                    /\ mag_to_counts(imagers[i], 2000, b, t).ok
                    /\ calibration(imagers[i], b, t, 2750).ok

\* C4: for every filter, magnitude, zero point and exposure time given as a
\* time quantity, whenever both conversions return, calibration times
\* mag_to_counts is 10^(0.4*(zpt - mag)), in either mode.
C4_RoundTrip ==
    \A i \in ImagerIds :
        imagers[i].built
        => \A b \in imagers[i].filters, m \in Mags, z \in Zpts, t \in TimeQuantities :
              LET counts == mag_to_counts(imagers[i], m, b, t)
                  cali == calibration(imagers[i], b, t, z)
              IN  counts.ok /\ cali.ok => cali.v + counts.v = Dex(z - m)

(***************************************************************************)
(* Determinism given the seed                                              *)
(***************************************************************************)
\* The first k calls recorded in h1 and h2 are the same calls.
SameCalls(h1, h2, k) == \A j \in 1..k : h1[j].op = h2[j].op /\ h1[j].a = h2[j].a

\* Two calls ended alike: both raised, or both returned observations equal
\* in every field (raw_counts, src_counts, sky_counts, image, var_image,
\* calibration, mag_error and the rest).
SameObservation(o1, o2) == o1.raised = o2.raised /\ o1.obs = o2.obs

SameSeededConfig ==
    /\ imagers[1].built /\ imagers[2].built
    /\ imagers[1].args = imagers[2].args
    /\ imagers[1].args.random_state.t = "int"

\* C2: two imagers built with the same configuration and the same integer
\* seed, given the same sequence of calls, return equal observations at
\* every step.
C2_Deterministic ==
    SameSeededConfig
    => \A k \in 1..Min(Len(hist[1]), Len(hist[2])) :
          SameCalls(hist[1], hist[2], k)
          => SameObservation(hist[1][k].out, hist[2][k].out)

\* Both imagers have made the same two calls, the second an observe that
\* returned after drawing noise.
C2_Witness ==
    /\ SameSeededConfig
    /\ Len(hist[1]) = 2 /\ Len(hist[2]) = 2 /\ SameCalls(hist[1], hist[2], 2)
    /\ hist[1][2].op = "observe" /\ ~hist[1][2].out.raised
    /\ ~hist[1][1].out.raised /\ hist[1][2].out.gen # hist[1][1].out.gen

(***************************************************************************)
(* SpecRaster: inject_stars with one point on odd square grids             *)
(***************************************************************************)
OddDims == {n \in 1..MaxDim : n % 2 = 1}
Weights == {1, 7}

\* One point anywhere on the grid, in steps of half a pixel.
RasterArgs ==
    UNION {{[x |-> <<hx>>, y |-> <<hy>>, signal |-> <<w>>, xy_dim |-> <<n, n>>,
             mask |-> None] :
               hx \in 0..(2 * (n - 1)), hy \in 0..(2 * (n - 1)), w \in Weights} :
           n \in OddDims}

InitRaster == InitWith({OneStar}, {Env(TRUE, "linux")})

NextRaster == InjectStarsCall(RasterArgs)

SpecRaster == InitRaster /\ [][NextRaster]_vars

\* The image that is w at row y0, column x0 and zero elsewhere.
OnePixel(n, x0, y0, w) ==
    [nr |-> n, nc |-> n, v |-> [p \in Idx(n, n) |-> IF p = <<y0, x0>> THEN w ELSE 0]]

\* C3: inject_stars with a single point at an integer pixel position
\* (x0, y0), 0 <= x0, y0 <= N-1, weight w and xy_dim = (N, N), N odd,
\* returns the image that is w at [y0, x0] and zero everywhere else.
C3_ExactPlacement ==
    /\ last.op = "inject_stars"
    /\ last.a.x[1] % 2 = 0 /\ last.a.y[1] % 2 = 0
    => /\ last.out.ok
       /\ last.out.v = OnePixel(last.a.xy_dim[1], last.a.x[1] \div 2,
                                last.a.y[1] \div 2, last.a.signal[1])

(***************************************************************************)
(* Checks made before the work                                             *)
(***************************************************************************)
\* The step is an observe or observe_background call on imager i.
Observed(i) == hist'[i] # hist[i]

\* The call of the step is one observe and observe_background must refuse.
Refused(i) ==
    \/ last'.a.bandpass \notin imagers[i].filters
    \/ last'.op = "observe" /\ source.cls # "Source"

C5_Step ==
    \A i \in ImagerIds :
        Observed(i) /\ Refused(i)
        => /\ last'.out.raised
           /\ gens' = gens
           /\ ~last'.out.read
           /\ source' = source

\* C5: observe raises for a bandpass outside the imager's filters and for a
\* source that is not a Source, observe_background for a bandpass outside
\* the filters; no draw is taken from a generator, no background file is
\* read and the source is as it was.
C5_RaisesBeforeWork == [][C5_Step]_vars

\* observe_background was refused a bandpass outside the filters.
C5_Witness ==
    /\ last.op = "observe_background" /\ imagers[1].built
    /\ last.a.bandpass \notin imagers[1].filters
    /\ last.out.raised /\ ~last.out.read

C6_Step ==
    /\ last'.op = "ideal_observe"
    /\ source.cls # "Source" \/ last'.a.bandpass \notin Bands
    => last'.out.raised /\ source' = source

\* C6: IdealImager.observe raises for a source that is not a Source and for
\* a bandpass that belongs to no filter set, before the source is touched.
C6_IdealValidates == [][C6_Step]_vars

(***************************************************************************)
(* What observe does to the source                                         *)
(***************************************************************************)
C8_Untouched == last'.op \in {"observe", "ideal_observe"} => source' = source

\* C8: after IdealImager.observe or ArtImager.observe every attribute of the
\* source, the parameters of its smooth model included, has the value it had
\* before the call.
C8_SourceOnlyRead == [][C8_Untouched]_vars

\* The amplitude a call that returned has computed for the smooth model.
ComputedAmplitude(op, im, src, a) ==
    LET mag == IF op = "ideal_observe" \/ src.has_sp THEN src.sp_mag[a.bandpass]
               ELSE src.mags[a.bandpass][1]
        amp == mag_to_image_amplitude(src, mag, a.zpt)
    IN  IF op = "ideal_observe" THEN amp.amp_image
        ELSE sb_to_counts_per_pixel(im, amp.mu_e, a.bandpass,
                                    check_units(a.exptime, "s"), src.pixel_scale).v

C8_AmplitudeStep ==
    last'.op \in {"observe", "ideal_observe"}
    => /\ source' = [source EXCEPT !.amp = source'.amp]
       /\ source.smooth # "model" => source' = source
       /\ source.smooth = "model" /\ ~last'.out.raised
          => source'.amp = Some(ComputedAmplitude(last'.op, imagers[1], source, last'.a))

\* C8 as amended: observe changes nothing of the source but the amplitude
\* parameter of its smooth model; a source without a smooth model is left as
\* it was, and a call that returns for a source with one leaves the
\* amplitude it computed in that parameter.
C8_OnlyAmplitudeWritten == [][C8_AmplitudeStep]_vars

\* ArtImager.observe has returned for a source with a smooth model and left
\* its amplitude there.
C8_Witness ==
    /\ last.op = "observe" /\ ~last.out.raised
    /\ source.smooth = "model" /\ source.amp # WithModel.amp

(***************************************************************************)
(* What two imagers share                                                  *)
(***************************************************************************)
Tables(im) == <<im.efficiency, im.dlam, im.lam_eff, im.zpt_inst>>

\* The generator instance a random_state argument names: the one of
\* numpy.random for None, the caller's for an instance.
Instance(rs) == IF rs.t = "none" THEN "global" ELSE rs.g

\* Neither imager was given the generator instance of the other.
OwnGenerators(i, j) ==
    LET ri == imagers[i].args.random_state
        rj == imagers[j].args.random_state
    IN  ri.t = "int" \/ rj.t = "int" \/ Instance(ri) # Instance(rj)

\* The caller handed both imagers one and the same generator instance.
SameInstanceGiven(i, j) ==
    /\ imagers[i].args.random_state.t = "gen"
    /\ imagers[j].args.random_state = imagers[i].args.random_state

C7_Step ==
    \A i, j \in ImagerIds :
        /\ i # j /\ imagers[i].built /\ imagers[j].built /\ Observed(i)
        /\ ~SameInstanceGiven(i, j)
        => /\ Tables(imagers'[j]) = Tables(imagers[j])
           /\ gens'[imagers[j].rng] = gens[imagers[j].rng]

\* C7: however two imagers were built (random_state None, an integer or a
\* generator instance of its own), observe and observe_background on one
\* leave the generator state and the calibration tables of the other
\* unchanged.
C7_NothingShared == [][C7_Step]_vars

C7_OwnStep ==
    \A i, j \in ImagerIds :
        i # j /\ imagers[i].built /\ imagers[j].built /\ Observed(i)
        => /\ Tables(imagers'[j]) = Tables(imagers[j])
           /\ OwnGenerators(i, j) => gens'[imagers[j].rng] = gens[imagers[j].rng]

\* C7 as amended: the calibration tables of the other imager are never
\* changed, and its generator state is unchanged when one of the two was
\* built with an integer seed or the two were given different generator
\* instances (None standing for the generator of numpy.random).
C7_OwnGeneratorsApart == [][C7_OwnStep]_vars

\* An imager with an integer seed has drawn noise while the other, built on
\* the caller's generator, had observed before.
C7_Witness ==
    /\ imagers[1].built /\ imagers[2].built
    /\ imagers[1].args.random_state.t = "int"
    /\ imagers[2].args.random_state.t = "gen"
    /\ Len(hist[2]) > 0
    /\ last.im = 1 /\ last.op = "observe" /\ ~last.out.raised
    /\ last.out.gen # SeedState(imagers[1].args.random_state.v)

(***************************************************************************)
(* Construction from a FilterSystem alone                                  *)
(***************************************************************************)
\* C11: a construction whose only calibration input is a FilterSystem
\* (phot_system, zpt_inst, dlam and lam_eff all None) succeeds and gives a
\* radiometric imager whose filters are the filter names of the
\* FilterSystem, with dlam and lam_eff in angstrom for each of them.
C11_FilterSystemBuilds ==
    /\ last.op = "init"
    /\ IsNone(last.a.phot_system) /\ IsNone(last.a.zpt_inst)
    /\ IsNone(last.a.dlam) /\ IsNone(last.a.lam_eff)
    /\ ~IsNone(last.a.filter_system)
    /\ last.a.efficiency.t # "other"
    => /\ ~last.out.raised
       /\ imagers[last.im].built
       /\ Mode(imagers[last.im]) = "radiometric"
       /\ imagers[last.im].filters = Get(last.a.filter_system)
       /\ \A f \in imagers[last.im].filters :
             /\ Get(imagers[last.im].dlam)[f].unit = "AA"
             /\ Get(imagers[last.im].lam_eff)[f].unit = "AA"

(***************************************************************************)
(* Exposure times given as bare numbers                                    *)
(***************************************************************************)
\* The arguments a with the bare exposure time taken as seconds.
InSeconds(a) == [a EXCEPT !.exptime = Q(a.exptime.v, "s")]

\* A call with a bare exposure time comes out as the same call with the
\* exposure time as a quantity in seconds.
C12_Step ==
    LET i == last'.im
        a == last'.a
        bare == a.exptime.unit = "none"
    IN  /\ last'.op = "mag_to_counts" /\ bare
           => last'.out = mag_to_counts(imagers[i], a.mag, a.bandpass, InSeconds(a).exptime)
        /\ last'.op = "sb_to_counts_per_pixel" /\ bare
           => last'.out = sb_to_counts_per_pixel(imagers[i], a.mag, a.bandpass,
                                                 InSeconds(a).exptime, a.pixel_scale)
        /\ last'.op = "calibration" /\ bare
           => last'.out = calibration(imagers[i], a.bandpass, InSeconds(a).exptime, a.zpt)
        /\ last'.op = "observe" /\ bare
           => last'.out = ArtObserve(imagers[i], env, gens[imagers[i].rng], source,
                                     InSeconds(a))
        /\ last'.op = "observe_background" /\ bare
           => last'.out = ArtObserveBackground(imagers[i], env, gens[imagers[i].rng],
                                               source, InSeconds(a))

\* C12: mag_to_counts, sb_to_counts_per_pixel, calibration, observe and
\* observe_background take a bare number t as t seconds: the call returns
\* what it returns for the time quantity t s.
C12_BareNumberIsSeconds == [][C12_Step]_vars

(***************************************************************************)
(* The variance image                                                      *)
(***************************************************************************)
\* An observe or observe_background call that returns: its raw_counts are
\* the counts drawn for its src_counts and sky_counts from the generator as
\* the call found it, read-noise draw included, and its var_image is those
\* counts plus (read_noise/gain)^2 in every pixel (both times G^2 here).
C13_Step ==
    last'.op \in {"observe", "observe_background"} /\ ~last'.out.raised
    => LET im == imagers[last'.im]
           o == last'.out.obs
           drawn == NoisyCounts(im, env, o.src_counts, o.sky_counts, gens[im.rng])
       IN  /\ ~drawn.raised
           /\ o.raw_counts = drawn.raw
           /\ Shape(o.var_image) = Shape(o.raw_counts)
           /\ \A p \in DOMAIN o.var_image.v :
                 o.var_image.v[p] = drawn.raw.v[p] + im.read_noise * im.read_noise
           /\ (im.read_noise = 0 /\ im.gain = 0 => o.var_image = o.raw_counts)

\* C13: in every observation returned by observe or observe_background,
\* var_image is raw_counts + (read_noise/gain)^2 pixel by pixel, raw_counts
\* being the final noisy counts with the read-noise draw; with read_noise 0
\* and gain 1 the variance image is the raw counts.
C13_VarianceFromRawCounts == [][C13_Step]_vars

\* An observation of an imager with read noise has been returned, and the
\* draw moved some pixel away from its expected counts.
C13_Witness ==
    /\ last.op \in {"observe", "observe_background"} /\ ~last.out.raised
    /\ imagers[last.im].read_noise > 0
    /\ \E p \in DOMAIN last.out.obs.raw_counts.v :
          last.out.obs.raw_counts.v[p]
            # (last.out.obs.src_counts.v[p] + last.out.obs.sky_counts)
                * Lin(imagers[last.im].gain) * Lin(imagers[last.im].gain)

(***************************************************************************)
(* SpecUtil: check_xy_dim and embed_slices called on their own             *)
(***************************************************************************)
\* check_xy_dim(xy_dim, force_odd)
CheckXyDimCall(Args) ==
    /\ \E a \in Args :
         last' = Call("check_xy_dim", 0, a, check_xy_dim(a.xy_dim, a.force_odd))
    /\ UNCHANGED <<imagers, gens, source, env, hist>>

\* embed_slices(center, model_shape, image_shape)
EmbedSlicesCall(Args) ==
    /\ \E a \in Args :
         last' = Call("embed_slices", 0, a,
                      embed_slices(a.center, a.model_shape, a.image_shape))
    /\ UNCHANGED <<imagers, gens, source, env, hist>>

\* A whole number n, and the numbers of 0 .. MaxDim and between, in halves.
Whole(n) == 2 * n
Halves == 0 .. Whole(MaxDim)

XyDimArgs ==
    {[xy_dim |-> [scalar |-> TRUE, v |-> <<h>>], force_odd |-> f] :
        h \in Halves \cup {Whole(0 - 1), Whole(0 - 2)}, f \in BOOLEAN}
    \cup {[xy_dim |-> [scalar |-> FALSE, v |-> <<Whole(n1), Whole(n2)>>], force_odd |-> f] :
        n1 \in 1 .. MaxDim, n2 \in 1 .. MaxDim, f \in BOOLEAN}

\* Centers from well left of the image to well right of it, along either axis.
Centers ==
    {<<c, 1>> : c \in (0 - MaxDim) .. (2 * MaxDim)}
    \cup {<<1, c>> : c \in (0 - MaxDim) .. (2 * MaxDim)}
ModelShapes == {<<1, 1>>, <<3, 3>>, <<3, 1>>, <<MaxDim, 3>>, <<2, 3>>, <<3, 4>>}
ImageShapes == {<<3, 3>>, <<MaxDim, 2>>}

EmbedArgs ==
    {[center |-> c, model_shape |-> m, image_shape |-> n] :
        c \in Centers, m \in ModelShapes, n \in ImageShapes}

InitUtil == InitWith({OneStar}, {Env(TRUE, "linux")})

NextUtil ==
    \/ CheckXyDimCall(XyDimArgs)
    \/ EmbedSlicesCall(EmbedArgs)

SpecUtil == InitUtil /\ [][NextUtil]_vars

(***************************************************************************)
(* Grid dimensions                                                         *)
(***************************************************************************)
\* The dimensions of xy_dim, a scalar or a pair of whole numbers.
DimsOf(xy_dim) ==
    IF xy_dim.scalar THEN <<xy_dim.v[1] \div 2, xy_dim.v[1] \div 2>>
    ELSE <<xy_dim.v[1] \div 2, xy_dim.v[2] \div 2>>

\* C14: with force_odd, check_xy_dim raises for every xy_dim, scalar or
\* pair, with an even dimension; an odd scalar n comes back as the pair
\* (n, n) and a pair of odd integers as that pair; without force_odd no
\* xy_dim is refused for its parity.
C14_OddEnforced ==
    last.op = "check_xy_dim" /\ (\A k \in DOMAIN last.a.xy_dim.v : last.a.xy_dim.v[k] % 2 = 0)
    => LET dims == DimsOf(last.a.xy_dim)
           even == \E k \in 1 .. 2 : dims[k] % 2 = 0
       IN  /\ last.a.force_odd /\ even => ~last.out.ok
           /\ last.a.force_odd /\ ~even => last.out = Ok(dims)
           /\ ~last.a.force_odd => last.out = Ok(dims)

\* A pair whose second dimension alone is even has been refused.
C14_Witness ==
    /\ last.op = "check_xy_dim" /\ last.a.force_odd /\ ~last.a.xy_dim.scalar
    /\ last.a.xy_dim.v = <<Whole(3), Whole(4)>>
    /\ ~last.out.ok

(***************************************************************************)
(* Embedding a model array into an image                                   *)
(***************************************************************************)
\* The indices a Python slice lo:hi selects on an axis of length n.
SliceIndices(sl, n) ==
    {SliceStart(sl[1], n) + d : d \in 0 .. SliceLen(sl[1], sl[2], n) - 1}

\* The image indices under the footprint of a model of length m centered at
\* c, on an image axis of length n.
Overlap(c, m, n) == {i \in 0 .. n - 1 : c - m \div 2 <= i /\ i <= c + m \div 2}

\* C15: for an odd model_shape, embed_slices returns along each axis an
\* img_slice that selects exactly the image indices under the model's
\* footprint and a mod_slice that selects exactly the model indices lying
\* over them (so both select as many, and nothing when the footprint is
\* outside the image); an even model_shape raises.
C15_SlicesCoverOverlap ==
    last.op = "embed_slices"
    => IF \E k \in 1 .. 2 : last.a.model_shape[k] % 2 = 0
       THEN ~last.out.ok
       ELSE /\ last.out.ok
            /\ \A k \in 1 .. 2 :
                 LET c == last.a.center[k]
                     m == last.a.model_shape[k]
                     n == last.a.image_shape[k]
                     img == SliceIndices(last.out.v.img_slice[k], n)
                     mod == SliceIndices(last.out.v.mod_slice[k], m)
                 IN  /\ img = Overlap(c, m, n)
                     /\ mod = {i - (c - m \div 2) : i \in Overlap(c, m, n)}
                     /\ Cardinality(img) = Cardinality(mod)

(***************************************************************************)
(* observe_background against observe on an empty source                   *)
(***************************************************************************)
\* A source of the grid xy_dim with no stars and no smooth model.
BlankSource(xy_dim, pixel_scale) ==
    [OneStar EXCEPT !.x = <<>>, !.y = <<>>,
                    !.mags = [b \in SourceBands |-> <<>>],
                    !.xy_dim = xy_dim, !.pixel_scale = pixel_scale]

\* The arguments of observe that go with the arguments a of
\* observe_background.
AsObserveArgs(a) ==
    [bandpass |-> a.bandpass, exptime |-> a.exptime, sky_sb |-> a.sky_sb,
     psf |-> a.psf, zpt |-> a.zpt, mask |-> None, bkg_file |-> a.bkg_file,
     bkg_ori |-> None]

\* An observe_background call comes out as observe does, from the same
\* imager and generator state, on the blank source of its xy_dim.
C16_Step ==
    last'.op = "observe_background"
    => LET im == imagers[last'.im]
           a == last'.a
           b == last'.out
           o == ArtObserve(im, env, gens[im.rng], BlankSource(a.xy_dim, a.pixel_scale),
                           AsObserveArgs(a))
       IN  /\ b.raised = o.raised
           /\ b.gen = o.gen
           /\ ~b.raised
              => /\ b.obs.src_counts = o.obs.src_counts
                 /\ b.obs.raw_counts = o.obs.raw_counts
                 /\ b.obs.sky_counts = o.obs.sky_counts
                 /\ b.obs.image = o.obs.image
                 /\ b.obs.var_image = o.obs.var_image
                 /\ b.obs.calibration = o.obs.calibration
                 /\ Shape(b.obs.image) = <<a.xy_dim[2], a.xy_dim[1]>>

\* C16: observe_background gives the src_counts, raw_counts, sky_counts,
\* image, var_image and calibration, and leaves the generator in the state,
\* that observe gives with the same bkg_file on a source of the same xy_dim
\* without stars and without a smooth model; its arrays have the shape
\* xy_dim.
C16_BackgroundAsObserve == [][C16_Step]_vars

(***************************************************************************)
(* The total magnitude of the smooth model                                 *)
(***************************************************************************)
\* The source src with an integrated-spectrum accessor that returns in
\* every band the source's own magnitude of that band.
WithAccessor(src) ==
    [src EXCEPT !.has_sp = TRUE, !.sp_mag = [b \in DOMAIN src.mags |-> src.mags[b][1]]]

\* An observe call of either pipeline on a source with a smooth model and
\* without the accessor comes out as it does when the accessor is there and
\* returns source.mags[bandpass].
C17_Step ==
    /\ last'.op \in {"ideal_observe", "observe"}
    /\ source.cls = "Source" /\ source.smooth = "model" /\ ~source.has_sp
    /\ \A b \in DOMAIN source.mags : Len(source.mags[b]) = 1
    => LET a == last'.a
           o == IF last'.op = "ideal_observe" THEN IdealObserve(WithAccessor(source), a)
                ELSE ArtObserve(imagers[last'.im], env, gens[imagers[last'.im].rng],
                                WithAccessor(source), a)
       IN  /\ last'.out.raised = o.raised
           /\ ~o.raised => last'.out.obs = o.obs

\* C17: in both pipelines inject_smooth_model takes the total magnitude from
\* source.sp.mag_integrated_component when the source has the accessor and
\* from source.mags[bandpass] otherwise; no call fails for want of the
\* accessor.
C17_MagnitudeFallback == [][C17_Step]_vars

(***************************************************************************)
(* SpecShape: observe with a background file on square and oblong grids    *)
(***************************************************************************)
\* Sources of the grids 5 x 3 and 3 x 5 (x by y).
Wide == [OneStar EXCEPT !.xy_dim = <<5, 3>>]
Tall == [OneStar EXCEPT !.xy_dim = <<3, 5>>]

ShapeCfgs == {[EmpArgs EXCEPT !.random_state = Seed(1)], NoisyArgs}

ShapeObsArgs ==
    {[BaseObs EXCEPT !.bkg_file = Some("bkg.fits"), !.bkg_ori = ori, !.psf = k,
                     !.sky_sb = sb] :
        ori \in {None, Some(<<0, 0>>), Some(<<1, 1>>), Some(<<2, 2>>)},
        k \in {None, Some(Delta)}, sb \in {None, Some(2250)}}

InitShape == InitWith({OneStar, Wide, Tall}, {Env(TRUE, "linux")})

NextShape ==
    \/ Construct(1, ShapeCfgs)
    \/ ObserveCall(1, ShapeObsArgs, FALSE)

SpecShape == InitShape /\ [][NextShape]_vars

\* The cutout of xy_dim at origin ori lies inside the background temp,
\* whichever of the two dimensions is taken along the rows.
CutoutInside(temp, xy_dim, ori) ==
    /\ ori[1] >= 0 /\ ori[2] >= 0
    /\ ori[1] + Max(xy_dim[1], xy_dim[2]) <= temp.nr
    /\ ori[2] + Max(xy_dim[1], xy_dim[2]) <= temp.nc

\* An observe call with a background at least as large as the grid, and the
\* default origin or one that keeps the cutout inside, returns arrays of
\* the one shape of the grid (xy_dim[1] rows of y, xy_dim[0] columns of x),
\* and with the default origin returns what it returns for the origin that
\* centers the cutout.
C18_Step ==
    /\ last'.op = "observe" /\ ~IsNone(last'.a.bkg_file)
    /\ source.xy_dim[1] % 2 = 1 /\ source.xy_dim[2] % 2 = 1
    /\ env.files[Get(last'.a.bkg_file)].nr >= Max(source.xy_dim[1], source.xy_dim[2])
    /\ env.files[Get(last'.a.bkg_file)].nc >= Max(source.xy_dim[1], source.xy_dim[2])
    /\ \/ IsNone(last'.a.bkg_ori)
       \/ CutoutInside(env.files[Get(last'.a.bkg_file)], source.xy_dim, Get(last'.a.bkg_ori))
    => LET temp == env.files[Get(last'.a.bkg_file)]
           grid == <<source.xy_dim[2], source.xy_dim[1]>>
           o == last'.out
           centered == Some(<<(temp.nr - grid[1]) \div 2, (temp.nc - grid[2]) \div 2>>)
           im == imagers[last'.im]
       IN  /\ ~o.raised
           /\ Shape(o.obs.src_counts) = grid
           /\ Shape(o.obs.raw_counts) = grid
           /\ Shape(o.obs.image) = grid
           /\ Shape(o.obs.var_image) = grid
           /\ IsNone(last'.a.bkg_ori)
              => o.obs = ArtObserve(im, env, gens[im.rng], source,
                                    [last'.a EXCEPT !.bkg_ori = centered]).obs

\* C18: in observe, for every xy_dim with both dimensions odd, square or
\* not, and every background at least as large as the grid, with the
\* default origin or an origin that keeps the cutout inside the background,
\* the star image, the cutout, src_counts, raw_counts, image and var_image
\* have one and the same shape, that of xy_dim, so the overlay of the cutout
\* does not fail, and the default cutout is centered in the background.
C18_OneShape == [][C18_Step]_vars

(***************************************************************************)
(* Observing without a sky level                                           *)
(***************************************************************************)
\* The call last made of observe had a filter of the imager, a Source with
\* that band, and a bandpass the imager converts magnitudes and calibrates
\* for: nothing but the counts themselves is left to fail.
C19_WellFormedCall ==
    LET im == imagers[last.im]
        t == check_units(last.a.exptime, "s")
    IN  /\ _check_bandpass(im, last.a.bandpass)
        /\ _check_source(source)
        /\ last.a.bandpass \in DOMAIN source.mags
        /\ mag_to_counts(im, 2000, last.a.bandpass, t).ok
        /\ calibration(im, last.a.bandpass, t, last.a.zpt).ok

\* C19: observe without a sky level does not raise on negative source
\* counts: it returns, with src_counts >= 0 in every pixel (negative pixels
\* are set to zero after the seeing and before the draw), sky_counts 0 and
\* no mag_error; and an observation of observe has no mag_error only when
\* no sky level was given.
C19_NoSkyClipped ==
    last.op = "observe"
    => /\ IsNone(last.a.sky_sb) /\ C19_WellFormedCall
          => /\ ~last.out.raised
             /\ \A p \in DOMAIN last.out.obs.src_counts.v :
                   last.out.obs.src_counts.v[p] >= 0
             /\ last.out.obs.sky_counts = 0
             /\ IsNone(last.out.obs.mag_error)
       /\ ~last.out.raised
          => (IsNone(last.out.obs.mag_error) <=> IsNone(last.a.sky_sb))

\* observe has returned without a sky level for a kernel with negative
\* wings: the pixels beside the star were negative and are zero.
C19_Witness ==
    /\ last.op = "observe" /\ IsNone(last.a.sky_sb) /\ last.a.psf = Some(Sharp)
    /\ ~last.out.raised
    /\ last.out.obs.src_counts.v[<<1, 1>>] > 0
    /\ last.out.obs.src_counts.v[<<1, 0>>] = 0

(***************************************************************************)
(* The magnitude error                                                     *)
(***************************************************************************)
\* C20: with a sky level, the mag_error of an observation of observe has
\* one value per pixel of the image, and the value at a pixel is
\* 2.5*log10(1 + sqrt(read_noise^2 + sky_counts*gain + s*gain)/(s*gain))
\* for the source counts s of that pixel in src_counts.
C20_PerPixelError ==
    last.op = "observe" /\ ~last.out.raised /\ ~IsNone(last.a.sky_sb)
    => LET o == last.out.obs
           me == Get(o.mag_error)
       IN  /\ ~IsNone(o.mag_error)
           /\ Len(me) = o.image.nr * o.image.nc
           /\ \A p \in DOMAIN o.src_counts.v :
                 me[p[1] * o.image.nc + p[2] + 1]
                   = MagError(imagers[last.im], o.sky_counts, o.src_counts.v[p])

(***************************************************************************)
(* The Normal stand-in for the Poisson draw                                *)
(***************************************************************************)
\* The primary model Poisson((src_counts + sky_counts) * gain) / gain in a
\* pixel of expected counts c: mean c, variance c / gain.
PrimaryMoments(c) == [mean |-> c, gvar |-> c]

\* C21: the Normal distribution is drawn from only on win32, and for every
\* gain > 0 its mean and variance in a pixel are those of
\* Poisson((src_counts + sky_counts) * gain) / gain: mean
\* src_counts + sky_counts and variance (src_counts + sky_counts) / gain.
C21_FallbackMatchesPoisson ==
    last.op \in {"observe", "observe_background"} /\ ~last.out.raised
    => \A p \in DOMAIN last.out.obs.src_counts.v :
          LET c == last.out.obs.src_counts.v[p] + last.out.obs.sky_counts
              d == DrawnFrom(imagers[last.im], env, c)
          IN  /\ d.dist = "normal" <=> env.platform = "win32"
              /\ c >= 0 => /\ d.mean = PrimaryMoments(c).mean
                           /\ d.gvar = PrimaryMoments(c).gvar

(***************************************************************************)
(* SpecMask: inject_stars with two points and a mask                       *)
(***************************************************************************)
\* Two points along the middle row, from left of the grid to right of it,
\* in half pixels, on the grids 1 x 1 and 3 x 3.
MaskedArgs ==
    {[x |-> <<h1, h2>>, y |-> <<1, 1>>, signal |-> <<1, 7>>, xy_dim |-> <<n, n>>,
      mask |-> k] :
        h1 \in {-2, 0, 1, 2, 4, 6}, h2 \in {-2, 0, 1, 2, 4, 6}, n \in {1, 3},
        k \in {None, Some(<<TRUE, FALSE>>), Some(<<FALSE, TRUE>>),
               Some(<<FALSE, FALSE>>)}}

InitMask == InitWith({OneStar}, {Env(TRUE, "linux")})

NextMask == InjectStarsCall(MaskedArgs)

SpecMask == InitMask /\ [][NextMask]_vars

\* The points of the call a that the mask selects and whose coordinates lie
\* in the range of the histogram.
Landed(a) ==
    {i \in DOMAIN a.x :
        /\ IsNone(a.mask) \/ Get(a.mask)[i]
        /\ InHistRange(a.x[i], a.xy_dim[1])
        /\ InHistRange(a.y[i], a.xy_dim[2])}

\* C22: inject_stars does not raise, whether or not the points lie in the
\* range of the histogram, and the returned image sums to the weights of
\* the selected points that landed: every such point has its whole weight
\* in one pixel, weights in one pixel add, and points outside the range or
\* masked out add nothing.
C22_WeightConserved ==
    last.op = "inject_stars"
    => /\ last.out.ok
       /\ SumOver(DOMAIN last.out.v.v, last.out.v.v)
            = SumOver(Landed(last.a), last.a.signal)
       /\ \A p \in DOMAIN last.out.v.v :
             \E S \in SUBSET Landed(last.a) : last.out.v.v[p] = SumOver(S, last.a.signal)

(***************************************************************************)
(* SpecSeq: observe calls of both pipelines on one source, one after       *)
(* another, the calls on the imager kept with their outcome                *)
(***************************************************************************)
SeqCfgs == {[EmpArgs EXCEPT !.random_state = Seed(1)]}

SeqObsArgs ==
    {BaseObs, [BaseObs EXCEPT !.zpt = 2500], [BaseObs EXCEPT !.exptime = Q(-2000, "ks")],
     [BaseObs EXCEPT !.psf = Some(Delta)]}

SeqIdealArgs ==
    {[bandpass |-> b, psf |-> None, zpt |-> z, mask |-> None] :
        b \in {"F", "X"}, z \in {2750, 2500}}

InitSeq == InitWith({OneStar, WithModel, WithModelNoSp}, {Env(TRUE, "linux")})

NextSeq ==
    \/ Construct(1, SeqCfgs)
    \/ ObserveCall(1, SeqObsArgs, TRUE)
    \/ IdealObserveCall(SeqIdealArgs)

SpecSeq == InitSeq /\ [][NextSeq]_vars

\* The source as the caller made it: the smooth model, if any, with the
\* amplitude it was given at first.
Fresh(src) == [src EXCEPT !.amp = IF src.smooth = "model" THEN WithModel.amp ELSE None]

\* An observe call of either pipeline comes out, in whether it returns and
\* in its noise-free image, as the same call on the fresh source.
C23_Step ==
    last'.op \in {"ideal_observe", "observe"}
    => LET a == last'.a
           o == IF last'.op = "ideal_observe" THEN IdealObserve(Fresh(source), a)
                ELSE ArtObserve(imagers[last'.im], env, gens[imagers[last'.im].rng],
                                Fresh(source), a)
       IN  /\ last'.out.raised = o.raised
           /\ ~o.raised /\ last'.op = "ideal_observe"
              => last'.out.obs.image = o.obs.image
           /\ ~o.raised /\ last'.op = "observe"
              => last'.out.obs.src_counts = o.obs.src_counts

\* C23: whatever observe calls of IdealImager and ArtImager were made
\* before on the same source, each call gives the noise-free image
\* (IdealObservation.image, src_counts of ArtImager.observe) that it gives
\* when made first on a fresh copy of the source.
C23_IndependentOfEarlierCalls == [][C23_Step]_vars

\* IdealImager.observe has returned for a source with a smooth model after
\* an ArtImager.observe call that had left another amplitude on the model.
C23_Witness ==
    /\ last.op = "ideal_observe" /\ ~last.out.raised
    /\ source.smooth = "model"
    /\ Len(hist[1]) >= 1
    /\ ~hist[1][Len(hist[1])].out.raised
    /\ hist[1][Len(hist[1])].out.src.amp # WithModel.amp
    /\ hist[1][Len(hist[1])].out.src.amp # source.amp

====
